---- MODULE Spec2Model ----
(***************************************************************************)
(* A model of scanapi/tree/request_node.py: the RequestNode of the         *)
(* configuration tree, its construction-time key validation, its           *)
(* properties (http_method, full_url_path, headers, params, body, tests)   *)
(* and the steps of RequestNode.run().                                     *)
(*                                                                         *)
(* The collaborators of the node that live in other modules of the         *)
(* package (SpecEvaluator, TestingNode, validate_keys, join_urls,          *)
(* hide_sensitive_info) are modelled from their description in the         *)
(* design document; the transport (requests.request) is the environment.   *)
(***************************************************************************)
EXTENDS Integers, Sequences, FiniteSets, TLC

\* ------------------------------------------------------------------ bounds

\* run() is invoked at most MaxRuns times in a behaviour.
MaxRuns == 2

\* A request declares at most MaxTests test specifications.
MaxTests == 2

\* ------------------------------------------------------------- tree keys

BODY_KEY == "body"
HEADERS_KEY == "headers"
METHOD_KEY == "method"
NAME_KEY == "name"
PARAMS_KEY == "params"
PATH_KEY == "path"
TESTS_KEY == "tests"
VARS_KEY == "vars"

\* A key no node kind knows, as in `foo: 1`.
UNKNOWN_KEY == "foo"

\* ---------------------------------------------------- RequestNode constants

SCOPE == "request"

ALLOWED_KEYS ==
    {BODY_KEY, HEADERS_KEY, METHOD_KEY, NAME_KEY, PARAMS_KEY, PATH_KEY,
     TESTS_KEY, VARS_KEY}

\* Strings whose characters matter (the method) are sequences of characters.
ALLOWED_HTTP_METHODS ==
    { <<"G", "E", "T">>, <<"P", "O", "S", "T">>, <<"P", "U", "T">>,
      <<"P", "A", "T", "C", "H">>, <<"D", "E", "L", "E", "T", "E">> }

REQUIRED_KEYS == {NAME_KEY}

\* ------------------------------------------------------------ str.upper()

LowerCase ==
    <<"a", "b", "c", "d", "e", "f", "g", "h", "i", "j", "k", "l", "m",
      "n", "o", "p", "q", "r", "s", "t", "u", "v", "w", "x", "y", "z">>

UpperCase ==
    <<"A", "B", "C", "D", "E", "F", "G", "H", "I", "J", "K", "L", "M",
      "N", "O", "P", "Q", "R", "S", "T", "U", "V", "W", "X", "Y", "Z">>

UpperChar(c) ==
    IF \E i \in 1..Len(LowerCase) : LowerCase[i] = c
    THEN UpperCase[CHOOSE i \in 1..Len(LowerCase) : LowerCase[i] = c]
    ELSE c

Upper(s) == [i \in 1..Len(s) |-> UpperChar(s[i])]

\* ------------------------------------------------------- template values

\* A configured value is one token: a placeholder-free scalar, the
\* placeholder of a variable, the placeholder of a response header, or
\* (in the namespace only) a reference to a response object.  None is
\* Python's None.
Lit(s) == [tag |-> "lit", val |-> s, obj |-> 0]
Var(n) == [tag |-> "var", val |-> n, obj |-> 0]
Rsp(h) == [tag |-> "rsp", val |-> h, obj |-> 0]
Obj(i) == [tag |-> "obj", val |-> "", obj |-> i]
None == [tag |-> "none", val |-> "", obj |-> 0]

Slash == Lit("/")

RESPONSE == "response"

EmptyDict == [k \in {} |-> None]

\* {**a, **b}
DictMerge(a, b) ==
    [k \in (DOMAIN a) \cup (DOMAIN b) |-> IF k \in DOMAIN b THEN b[k] ELSE a[k]]

\* dict.get(key, default)
Get(d, key, default) == IF key \in DOMAIN d THEN d[key] ELSE default

\* ------------------------------------------------------------ the endpoint

\* The enclosing endpoint node: its path, headers and params are fixed when
\* the tree is built; its namespace (endpoint.vars) is the variable `vars`.
endpoint_path == <<Lit("http://api"), Slash>>

endpoint_headers == ("Authorization" :> Lit("base")) @@ ("Accept" :> Lit("json"))

endpoint_params == ("page" :> Lit("1")) @@ ("limit" :> Lit("10"))

\* --------------------------------------------------------- the transport

\* Status codes the server may answer with.
StatusCodes == {200, 302, 404}

SECRET == "secret123"

\* The headers of every response the server sends.
ResponseHeaders == ("Authorization" :> SECRET) @@ ("Content-Type" :> "json")

NewResponse(status) == [status_code |-> status, headers |-> ResponseHeaders]

\* ------------------------------------------ Template Evaluator (evaluate)

\* Whether every placeholder of token t can be looked up in namespace ns.
TokenResolves(t, ns) ==
    CASE t.tag = "var" -> t.val \in DOMAIN ns
      [] t.tag = "rsp" -> RESPONSE \in DOMAIN ns
      [] OTHER -> TRUE

\* The resolved value of token t: a variable's placeholder is replaced by
\* the value stored under its name, as stored; a response placeholder by
\* the header's value in the response object bound under `response`.
EvalToken(t, ns, h) ==
    CASE t.tag = "var" -> ns[t.val]
      [] t.tag = "rsp" -> Lit(h[ns[RESPONSE].obj].headers[t.val])
      [] OTHER -> t

\* Mappings and sequences (a string is the sequence of its pieces) are
\* evaluated element by element.
Resolves(value, ns) == \A k \in DOMAIN value : TokenResolves(value[k], ns)

Evaluate(value, ns, h) == [k \in DOMAIN value |-> EvalToken(value[k], ns, h)]

\* ------------------------------------------- Variable Namespace (update)

\* update() raises when preevaluate is set and a binding does not resolve
\* against the namespace extended with the extras.
UpdateRaises(registry, bindings, extras, preevaluate) ==
    preevaluate /\ ~Resolves(bindings, DictMerge(registry, extras))

\* The registry after update(bindings, extras, preevaluate).
Update(registry, bindings, extras, preevaluate, h) ==
    IF preevaluate
    THEN DictMerge(
             DictMerge(registry,
                       Evaluate(bindings, DictMerge(registry, extras), h)),
             extras)
    ELSE DictMerge(registry, bindings)

\* -------------------------------------------------------------- join_urls

RECURSIVE StripTrailing(_)
StripTrailing(s) ==
    IF s # <<>> /\ s[Len(s)] = Slash
    THEN StripTrailing(SubSeq(s, 1, Len(s) - 1))
    ELSE s

RECURSIVE StripLeading(_)
StripLeading(s) ==
    IF s # <<>> /\ Head(s) = Slash THEN StripLeading(Tail(s)) ELSE s

\* Base and suffix joined by exactly one slash.
join_urls(base, suffix) ==
    StripTrailing(base) \o <<Slash>> \o StripLeading(suffix)

\* ---------------------------------------------------------- validate_keys

InvalidKeys(keys, allowed) == keys \ allowed

MissingKeys(keys, required) == required \ keys

ValidateRaises(keys, allowed, required) ==
    InvalidKeys(keys, allowed) # {} \/ MissingKeys(keys, required) # {}

\* ------------------------------------------------------------ TestStatus

PASSED == "passed"
FAILED == "failed"
ERROR == "error"

\* ------------------------------------------------------- TestingNode.run

\* The assertions a test specification may hold:
\*   status_ok       response.status_code == 200
\*   auth_is_secret  response.headers["Authorization"] == "secret123"
\*   undefined_ref   an expression over a name that is bound nowhere
AssertKinds == {"status_ok", "auth_is_secret", "undefined_ref"}

TestSpec(kind) == [name |-> kind, assert |-> kind]

\* Whether evaluating the assertion raises.
AssertRaises(test, ns) ==
    test.assert = "undefined_ref" \/ RESPONSE \notin DOMAIN ns

\* The value of an assertion that evaluates.
AssertValue(test, ns, h) ==
    LET r == h[ns[RESPONSE].obj]
    IN  CASE test.assert = "status_ok" -> r.status_code = 200
          [] test.assert = "auth_is_secret" -> r.headers["Authorization"] = SECRET
          [] OTHER -> FALSE

TestRun(test, ns, h) ==
    IF AssertRaises(test, ns)
    THEN [name |-> test.name, status |-> ERROR, failure |-> "NameError"]
    ELSE IF AssertValue(test, ns, h)
         THEN [name |-> test.name, status |-> PASSED, failure |-> ""]
         ELSE [name |-> test.name, status |-> FAILED, failure |-> test.assert]

\* --------------------------------------------------- hide_sensitive_info

\* The externally configured set of sensitive fields, and the mask.
SENSITIVE == {"Authorization"}

MASK == "SENSITIVE_INFORMATION"

\* The response object after redaction in place.
Hidden(r) ==
    [r EXCEPT !.headers =
        [f \in DOMAIN r.headers |->
            IF f \in SENSITIVE THEN MASK ELSE r.headers[f]]]

\* ------------------------------------------------- RequestNode properties

\* The configured method compared as written, without upper().
MethodUpper_as_written(s) == Get(s, METHOD_KEY, <<"g", "e", "t">>)

\* The configured method in upper case, without the "get" default.
MethodUpper_no_default(s) == Upper(Get(s, METHOD_KEY, <<>>))

\* The value http_method compares: the configured method, "get" when the
\* key is absent, in upper case.
MethodUpper(s) == Upper(Get(s, METHOD_KEY, <<"g", "e", "t">>))

http_method_raises(s) == MethodUpper(s) \notin ALLOWED_HTTP_METHODS

http_method(s) == MethodUpper(s)

\* The joined URL before evaluation; an absent path is the empty string.
full_url(s) == join_urls(endpoint_path, Get(s, PATH_KEY, <<>>))

full_url_path_raises(s, ns) == ~Resolves(full_url(s), ns)

full_url_path(s, ns, h) == Evaluate(full_url(s), ns, h)

\* The headers merged the other way round: {**headers, **endpoint_headers}.
merged_headers_endpoint_wins(s) ==
    DictMerge(Get(s, HEADERS_KEY, EmptyDict), endpoint_headers)

merged_headers(s) == DictMerge(endpoint_headers, Get(s, HEADERS_KEY, EmptyDict))

headers_raises(s, ns) == ~Resolves(merged_headers(s), ns)

headers(s, ns, h) == Evaluate(merged_headers(s), ns, h)

merged_params(s) == DictMerge(endpoint_params, Get(s, PARAMS_KEY, EmptyDict))

params_raises(s, ns) == ~Resolves(merged_params(s), ns)

params(s, ns, h) == Evaluate(merged_params(s), ns, h)

body_raises(s, ns) == ~TokenResolves(Get(s, BODY_KEY, None), ns)

body(s, ns, h) == EvalToken(Get(s, BODY_KEY, None), ns, h)

\* The test nodes of the request, in declared order.
tests(s) == Get(s, TESTS_KEY, <<>>)

\* _run_tests giving up at the first test whose assertion raises.
RECURSIVE RunUntilError(_, _, _)
RunUntilError(ts, ns, h) ==
    IF ts = <<>> THEN <<>>
    ELSE IF TestRun(Head(ts), ns, h).status = ERROR
         THEN <<TestRun(Head(ts), ns, h)>>
         ELSE <<TestRun(Head(ts), ns, h)>> \o RunUntilError(Tail(ts), ns, h)

_run_tests_until_error(s, ns, h) == RunUntilError(tests(s), ns, h)

\* [test.run() for test in self.tests]
_run_tests(s, ns, h) == [i \in 1..Len(tests(s)) |-> TestRun(tests(s)[i], ns, h)]

\* _validate with the required keys left out of the call.
_validate_raises_allowed_only(s) == ValidateRaises(DOMAIN s, ALLOWED_KEYS, {})

\* _validate checking the method as well.
_validate_raises_checking_method(s) ==
    ValidateRaises(DOMAIN s, ALLOWED_KEYS, REQUIRED_KEYS) \/ http_method_raises(s)

\* self._validate() raises
_validate_raises(s) == ValidateRaises(DOMAIN s, ALLOWED_KEYS, REQUIRED_KEYS)

\* The vars bindings both namespace updates of run() are given.
spec_vars(s) == Get(s, VARS_KEY, EmptyDict)

\* no_failure counting only FAILED entries as failures.
no_failure_ignoring_errors(results) ==
    \A i \in 1..Len(results) : results[i].status # FAILED

\* all([r["status"] == PASSED for r in tests_results])
no_failure(results) == \A i \in 1..Len(results) : results[i].status = PASSED

\* ------------------------------------------- configuration fragments (input)

OptionalKeys == ALLOWED_KEYS \ REQUIRED_KEYS

MethodStrings ==
    { <<"g", "e", "t">>, <<"G", "E", "T">>, <<"P", "o", "s", "t">>,
      <<"p", "u", "t">>, <<"p", "a", "t", "c", "h">>,
      <<"D", "E", "L", "E", "T", "E">>,
      <<"O", "P", "T", "I", "O", "N", "S">>, <<"h", "e", "a", "d">>,
      <<"g", "e", "t", "s">>, <<>> }

DefaultPath == <<Slash, Lit("users"), Slash, Var("tok")>>

DefaultHeaders == ("Authorization" :> Var("tok")) @@ ("X-Id" :> Lit("7"))

DefaultParams == ("q" :> Var("tok")) @@ ("page" :> Lit("2"))

VarsChoices ==
    { ("tok" :> Lit("t1")), ("tok" :> Rsp("Authorization")),
      ("tok" :> Var("nope")) }

TestLists ==
    UNION { [1..n -> {TestSpec(k) : k \in AssertKinds}] : n \in 0..MaxTests }

DefaultValue(k) ==
    CASE k = NAME_KEY -> "list_users"
      [] k = METHOD_KEY -> <<"p", "o", "s", "t">>
      [] k = PATH_KEY -> DefaultPath
      [] k = HEADERS_KEY -> DefaultHeaders
      [] k = PARAMS_KEY -> DefaultParams
      [] k = BODY_KEY -> Var("tok")
      [] k = VARS_KEY -> ("tok" :> Lit("t1"))
      [] k = TESTS_KEY -> <<TestSpec("auth_is_secret")>>
      [] OTHER -> 1

Fragment(keys) == [k \in keys |-> DefaultValue(k)]

With(s, k, v) == [x \in (DOMAIN s) \cup {k} |-> IF x = k THEN v ELSE s[x]]

Without(s, k) == [x \in (DOMAIN s) \ {k} |-> s[x]]

\* Key sets: with or without the required key and the unknown key, and no
\* optional key, one of them, or all of them.
KeyShapes ==
    { r \cup o : r \in SUBSET {NAME_KEY, UNKNOWN_KEY},
                 o \in {{}, OptionalKeys} \cup {{k} : k \in OptionalKeys} }

\* Fragments of every key shape, fragments of every method string,
\* complete fragments of every vars choice with and without a path,
\* path-less complete fragments of every tests list, and complete
\* fragments whose method is disallowed or whose path names a variable
\* that is bound nowhere.
Fragments ==
    { Fragment(ks) : ks \in KeyShapes }
    \cup { With(Fragment({NAME_KEY}), METHOD_KEY, m) : m \in MethodStrings }
    \cup { With(f, VARS_KEY, v) :
             f \in {Fragment(ALLOWED_KEYS), Without(Fragment(ALLOWED_KEYS), PATH_KEY)},
             v \in VarsChoices }
    \cup { With(Without(Fragment(ALLOWED_KEYS), PATH_KEY), TESTS_KEY, t) :
             t \in TestLists }
    \cup { With(Fragment(ALLOWED_KEYS), METHOD_KEY,
                 <<"O", "P", "T", "I", "O", "N", "S">>),
           With(Fragment(ALLOWED_KEYS), PATH_KEY, <<Slash, Var("nope")>>) }

\* ------------------------------------------------------------------ state

VARIABLES
    spec,           \* self.spec of the request node constructed last
    constructed,    \* whether that construction returned a node
    vars,           \* self.endpoint.vars: the endpoint's namespace registry
    heap,           \* the live response objects, by identity
    pc,             \* where run() stands: idle, url, pre_update, request,
                    \* post_update, tests, hide, return, returned, raised
    runs,           \* how many times run() has been invoked
    method,         \* run()'s local `method`
    url,            \* run()'s local `url`
    sent,           \* the transport calls this run() has made
    response,       \* run()'s local `response` (an identity, 0 before the call)
    tests_results,  \* run()'s local `tests_results`
    bundle,         \* what run() returned
    error,          \* the exception that left the constructor, the property or run()
    vars_at_entry,  \* the registry as it was when the current frame was entered
    prev_url,       \* the url an earlier run() of this node resolved last
    calls           \* the calls this run() has made on its collaborators, in order

state == <<spec, constructed, vars, heap, pc, runs, method, url, sent,
           response, tests_results, bundle, error, vars_at_entry, prev_url,
           calls>>

Resting == {"idle", "returned", "raised"}

NoError == [type |-> "", detail |-> <<>>]

NoBundle == [response |-> 0, tests_results |-> <<>>, no_failure |-> FALSE]

\* One call on a collaborator: which, on what, and update()'s arguments.
Call(fn, arg, preevaluate, extras, bindings) ==
    [fn |-> fn, arg |-> arg, preevaluate |-> preevaluate, extras |-> extras,
     bindings |-> bindings]

Did(fn, arg) == Call(fn, arg, FALSE, EmptyDict, EmptyDict)

\* The response objects still referenced: by the namespace, by run()'s
\* local, or by the bundle the caller holds.
Live(h, ns, local, held) ==
    [i \in {j \in DOMAIN h :
              \/ j = local
              \/ j = held
              \/ (RESPONSE \in DOMAIN ns /\ ns[RESPONSE].obj = j)} |-> h[i]]

Init ==
    /\ spec = EmptyDict
    /\ constructed = FALSE
    /\ vars \in {EmptyDict, ("tok" :> Lit("a"))}
    /\ heap = EmptyDict
    /\ pc = "idle"
    /\ runs = 0
    /\ method = <<>>
    /\ url = <<>>
    /\ sent = <<>>
    /\ response = 0
    /\ tests_results = <<>>
    /\ bundle = NoBundle
    /\ error = NoError
    /\ vars_at_entry = vars
    /\ prev_url = <<>>
    /\ calls = <<>>

\* What every new frame starts from.
FreshFrame ==
    /\ method' = <<>>
    /\ url' = <<>>
    /\ sent' = <<>>
    /\ response' = 0
    /\ tests_results' = <<>>
    /\ bundle' = NoBundle
    /\ vars_at_entry' = vars
    /\ prev_url' = <<>>

\* An exception leaves the frame: its locals, and with them the local
\* response, are gone.
Raise(type, detail) ==
    /\ pc' = "raised"
    /\ error' = [type |-> type, detail |-> detail]
    /\ response' = 0
    /\ heap' = Live(heap, vars, 0, 0)

\* ------------------------------------------------------------- __init__

\* RequestNode(spec, endpoint), were every node to start with a registry
\* of its own.
Construct_with_own_namespace(s) ==
    /\ pc \in Resting
    /\ spec' = s
    /\ constructed' = ~_validate_raises(s)
    /\ error' = IF _validate_raises(s)
                THEN [type |-> "KeyValidationError",
                      detail |-> <<InvalidKeys(DOMAIN s, ALLOWED_KEYS)
                                     \cup MissingKeys(DOMAIN s, REQUIRED_KEYS),
                                   SCOPE>>]
                ELSE NoError
    /\ pc' = "idle"
    /\ FreshFrame
    /\ calls' = <<>>
    /\ vars' = EmptyDict
    /\ heap' = Live(heap, EmptyDict, 0, 0)
    /\ UNCHANGED runs

\* RequestNode(spec, endpoint): store the fragment, validate its keys.
Construct(s) ==
    /\ pc \in Resting
    /\ spec' = s
    /\ constructed' = ~_validate_raises(s)
    /\ error' = IF _validate_raises(s)
                THEN [type |-> "KeyValidationError",
                      detail |-> <<InvalidKeys(DOMAIN s, ALLOWED_KEYS)
                                     \cup MissingKeys(DOMAIN s, REQUIRED_KEYS),
                                   SCOPE>>]
                ELSE NoError
    /\ pc' = "idle"
    /\ FreshFrame
    /\ calls' = <<>>
    /\ heap' = Live(heap, vars, 0, 0)
    /\ UNCHANGED <<vars, runs>>

\* ---------------------------------------------------------- http_method

\* The property read by a caller outside run().
Get_http_method ==
    /\ constructed
    /\ pc \in Resting
    /\ calls' = <<Did("http_method", "")>>
    /\ url' = <<>>
    /\ sent' = <<>>
    /\ tests_results' = <<>>
    /\ bundle' = NoBundle
    /\ vars_at_entry' = vars
    /\ prev_url' = IF url # <<>> THEN url ELSE prev_url
    /\ IF http_method_raises(spec)
       THEN /\ Raise("HTTPMethodNotAllowedError",
                     <<MethodUpper(spec), ALLOWED_HTTP_METHODS>>)
            /\ method' = <<>>
       ELSE /\ method' = http_method(spec)
            /\ pc' = "idle"
            /\ error' = NoError
            /\ response' = 0
            /\ heap' = Live(heap, vars, 0, 0)
    /\ UNCHANGED <<spec, constructed, vars, runs>>

\* -------------------------------------------------------------------- run

\* run() is entered and reads self.http_method.
Run_http_method ==
    /\ constructed
    /\ pc \in Resting
    /\ runs < MaxRuns
    /\ runs' = runs + 1
    /\ calls' = <<Did("run", ""), Did("http_method", "")>>
    /\ url' = <<>>
    /\ sent' = <<>>
    /\ tests_results' = <<>>
    /\ bundle' = NoBundle
    /\ vars_at_entry' = vars
    /\ prev_url' = IF url # <<>> THEN url ELSE prev_url
    /\ IF http_method_raises(spec)
       THEN /\ Raise("HTTPMethodNotAllowedError",
                     <<MethodUpper(spec), ALLOWED_HTTP_METHODS>>)
            /\ method' = <<>>
       ELSE /\ method' = http_method(spec)
            /\ pc' = "url"
            /\ error' = NoError
            /\ response' = 0
            /\ heap' = Live(heap, vars, 0, 0)
    /\ UNCHANGED <<spec, constructed, vars>>

\* url = self.full_url_path, were the property to keep the URL it
\* computed on an earlier run of the node.
Run_full_url_path_cached ==
    /\ pc = "url"
    /\ calls' = Append(calls, Did("evaluate", "url"))
    /\ IF prev_url # <<>>
       THEN /\ url' = prev_url
            /\ pc' = "pre_update"
            /\ UNCHANGED <<error, response, heap>>
       ELSE IF full_url_path_raises(spec, vars)
       THEN /\ Raise("TemplateResolutionError", <<>>)
            /\ url' = <<>>
       ELSE /\ url' = full_url_path(spec, vars, heap)
            /\ pc' = "pre_update"
            /\ UNCHANGED <<error, response, heap>>
    /\ UNCHANGED <<spec, constructed, vars, runs, method, sent,
                   tests_results, bundle, vars_at_entry,
                   prev_url>>

\* url = self.full_url_path, were run() to merge the request's vars into
\* the registry before it resolves the URL.
Run_full_url_path_after_update ==
    /\ pc = "url"
    /\ vars' = Update(vars, spec_vars(spec), EmptyDict, FALSE, heap)
    /\ calls' = calls \o <<Call("update", "", FALSE, EmptyDict, spec_vars(spec)),
                           Did("evaluate", "url")>>
    /\ IF full_url_path_raises(spec, vars')
       THEN /\ pc' = "raised"
            /\ error' = [type |-> "TemplateResolutionError", detail |-> <<>>]
            /\ response' = 0
            /\ heap' = Live(heap, vars', 0, 0)
            /\ url' = <<>>
       ELSE /\ url' = full_url_path(spec, vars', heap)
            /\ pc' = "pre_update"
            /\ UNCHANGED <<error, response, heap>>
    /\ UNCHANGED <<spec, constructed, runs, method, sent,
                   tests_results, bundle, vars_at_entry,
                   prev_url>>

\* url = self.full_url_path
Run_full_url_path ==
    /\ pc = "url"
    /\ calls' = Append(calls, Did("evaluate", "url"))
    /\ IF full_url_path_raises(spec, vars)
       THEN /\ Raise("TemplateResolutionError", <<>>)
            /\ url' = <<>>
       ELSE /\ url' = full_url_path(spec, vars, heap)
            /\ pc' = "pre_update"
            /\ UNCHANGED <<error, response, heap>>
    /\ UNCHANGED <<spec, constructed, vars, runs, method, sent,
                   tests_results, bundle, vars_at_entry,
                   prev_url>>

\* self.endpoint.vars.update(vars, preevaluate=True) before the call.
Run_pre_update_evaluating ==
    /\ pc = "pre_update"
    /\ calls' = Append(calls, Call("update", "", TRUE, EmptyDict, spec_vars(spec)))
    /\ IF UpdateRaises(vars, spec_vars(spec), EmptyDict, TRUE)
       THEN /\ Raise("TemplateResolutionError", <<>>)
            /\ UNCHANGED vars
       ELSE /\ vars' = Update(vars, spec_vars(spec), EmptyDict, TRUE, heap)
            /\ pc' = "request"
            /\ UNCHANGED <<heap, response, error>>
    /\ UNCHANGED <<spec, constructed, runs, method, url, sent,
                   tests_results, bundle, vars_at_entry,
                   prev_url>>

\* self.endpoint.vars.update(vars, preevaluate=False)
Run_pre_update ==
    /\ pc = "pre_update"
    /\ calls' = Append(calls, Call("update", "", FALSE, EmptyDict, spec_vars(spec)))
    /\ vars' = Update(vars, spec_vars(spec), EmptyDict, FALSE, heap)
    /\ pc' = "request"
    /\ UNCHANGED <<spec, constructed, heap, runs, method, url, sent,
                   response, tests_results, bundle, error, vars_at_entry,
                   prev_url>>

\* The arguments resolved at the head of run(), with method and url,
\* against the registry as run() found it.
Descriptor_before_update ==
    [method |-> method, url |-> url,
     headers |-> IF Resolves(merged_headers(spec), vars_at_entry)
                 THEN headers(spec, vars_at_entry, heap) ELSE EmptyDict,
     params |-> IF Resolves(merged_params(spec), vars_at_entry)
                THEN params(spec, vars_at_entry, heap) ELSE EmptyDict,
     json |-> IF TokenResolves(Get(spec, BODY_KEY, None), vars_at_entry)
              THEN body(spec, vars_at_entry, heap) ELSE None,
     allow_redirects |-> FALSE]

\* The arguments of requests.request as they evaluate, in order.
Descriptor ==
    [method |-> method, url |-> url,
     headers |-> headers(spec, vars, heap),
     params |-> params(spec, vars, heap),
     json |-> body(spec, vars, heap),
     allow_redirects |-> FALSE]

\* The transport that tries once more when the connection fails.
Transport_retrying(d) ==
    \/ /\ sent' = sent \o <<d, d>>
       /\ Raise("ConnectionError", <<>>)
    \/ /\ sent' = Append(sent, d)
       /\ \E status \in StatusCodes :
            /\ response' = runs
            /\ heap' = (runs :> NewResponse(status)) @@ heap
            /\ pc' = "post_update"
            /\ UNCHANGED error

\* The transport followed by response.raise_for_status().
Transport_raise_for_status(d) ==
    /\ sent' = Append(sent, d)
    /\ \/ Raise("ConnectionError", <<>>)
       \/ \E status \in StatusCodes :
            IF status \in 200..299
            THEN /\ response' = runs
                 /\ heap' = (runs :> NewResponse(status)) @@ heap
                 /\ pc' = "post_update"
                 /\ UNCHANGED error
            ELSE Raise("HTTPError", <<>>)

\* The transport called with allow_redirects=True: a 302 answer makes it
\* issue the request again at the redirect target.
Transport_following_redirects(d) ==
    LET r == [d EXCEPT !.allow_redirects = TRUE]
    IN  \/ /\ sent' = Append(sent, r)
           /\ Raise("ConnectionError", <<>>)
        \/ \E status \in StatusCodes :
             /\ sent' = IF status = 302 THEN sent \o <<r, r>>
                                        ELSE Append(sent, r)
             /\ response' = runs
             /\ heap' = (runs :> NewResponse(status)) @@ heap
             /\ pc' = "post_update"
             /\ UNCHANGED error

\* requests.request(method, url, ...) called once with descriptor d: it
\* raises, or answers with a response of some status, which becomes the
\* local `response`; nothing in run() catches what it raises.
Transport(d) ==
    /\ sent' = Append(sent, d)
    /\ \/ Raise("ConnectionError", <<>>)
       \/ \E status \in StatusCodes :
            /\ response' = runs
            /\ heap' = (runs :> NewResponse(status)) @@ heap
            /\ pc' = "post_update"
            /\ UNCHANGED error

\* response = requests.request(...): the arguments are evaluated in order,
\* then the transport is called.
Run_request ==
    /\ pc = "request"
    /\ IF headers_raises(spec, vars)
       THEN /\ calls' = Append(calls, Did("evaluate", "headers"))
            /\ Raise("TemplateResolutionError", <<>>)
            /\ UNCHANGED sent
       ELSE IF params_raises(spec, vars)
       THEN /\ calls' = calls \o <<Did("evaluate", "headers"),
                                   Did("evaluate", "params")>>
            /\ Raise("TemplateResolutionError", <<>>)
            /\ UNCHANGED sent
       ELSE IF body_raises(spec, vars)
       THEN /\ calls' = calls \o <<Did("evaluate", "headers"),
                                   Did("evaluate", "params"),
                                   Did("evaluate", "body")>>
            /\ Raise("TemplateResolutionError", <<>>)
            /\ UNCHANGED sent
       ELSE /\ calls' = calls \o <<Did("evaluate", "headers"),
                                   Did("evaluate", "params"),
                                   Did("evaluate", "body"),
                                   Did("request", "")>>
            /\ Transport(Descriptor)
    /\ UNCHANGED <<spec, constructed, vars, runs, method, url,
                   tests_results, bundle, vars_at_entry,
                   prev_url>>

\* The second update made like the first: raw, and without the response.
Run_post_update_raw ==
    /\ pc = "post_update"
    /\ calls' = Append(calls, Call("update", "", FALSE, EmptyDict, spec_vars(spec)))
    /\ vars' = Update(vars, spec_vars(spec), EmptyDict, FALSE, heap)
    /\ heap' = heap
    /\ pc' = "tests"
    /\ UNCHANGED <<error, response>>
    /\ UNCHANGED <<spec, constructed, runs, method, url, sent,
                   tests_results, bundle, vars_at_entry,
                   prev_url>>

\* self.endpoint.vars.update(vars, extras={"response": response},
\*                           preevaluate=True)
Run_post_update ==
    /\ pc = "post_update"
    /\ calls' = Append(calls, Call("update", "", TRUE, (RESPONSE :> Obj(response)),
                                   spec_vars(spec)))
    /\ IF UpdateRaises(vars, spec_vars(spec), (RESPONSE :> Obj(response)), TRUE)
       THEN /\ Raise("TemplateResolutionError", <<>>)
            /\ UNCHANGED vars
       ELSE /\ vars' = Update(vars, spec_vars(spec), (RESPONSE :> Obj(response)),
                              TRUE, heap)
            /\ heap' = Live(heap, vars', response, 0)
            /\ pc' = "tests"
            /\ UNCHANGED <<error, response>>
    /\ UNCHANGED <<spec, constructed, runs, method, url, sent,
                   tests_results, bundle, vars_at_entry,
                   prev_url>>

\* Run_tests with lines 118 and 119 exchanged: the response is redacted
\* first and the tests are run on what is left.
Run_tests_after_hide ==
    /\ pc = "tests"
    /\ heap' = [heap EXCEPT ![response] = Hidden(@)]
    /\ tests_results' = _run_tests(spec, vars, heap')
    /\ calls' = Append(calls, Did("hide_sensitive_info", ""))
                  \o [i \in 1..Len(tests(spec)) |->
                        Did("test.run", tests(spec)[i].name)]
    /\ pc' = "hide"
    /\ UNCHANGED <<spec, constructed, vars, runs, method, url, sent,
                   response, bundle, error, vars_at_entry,
                   prev_url>>

\* tests_results = self._run_tests()
Run_tests ==
    /\ pc = "tests"
    /\ tests_results' = _run_tests(spec, vars, heap)
    /\ calls' = calls \o [i \in 1..Len(tests(spec)) |->
                            Did("test.run", tests(spec)[i].name)]
    /\ pc' = "hide"
    /\ UNCHANGED <<spec, constructed, vars, heap, runs, method, url, sent,
                   response, bundle, error, vars_at_entry,
                   prev_url>>

\* hide_sensitive_info, were it to redact a copy of the response and
\* run() to return that copy.
Run_hide_on_copy ==
    /\ pc = "hide"
    /\ heap' = ((0 - response) :> Hidden(heap[response])) @@ heap
    /\ response' = 0 - response
    /\ calls' = Append(calls, Did("hide_sensitive_info", ""))
    /\ pc' = "return"
    /\ UNCHANGED <<spec, constructed, vars, runs, method, url, sent,
                   tests_results, bundle, error, vars_at_entry,
                   prev_url>>

\* hide_sensitive_info(response)
Run_hide ==
    /\ pc = "hide"
    /\ heap' = [heap EXCEPT ![response] = Hidden(@)]
    /\ calls' = Append(calls, Did("hide_sensitive_info", ""))
    /\ pc' = "return"
    /\ UNCHANGED <<spec, constructed, vars, runs, method, url, sent,
                   response, tests_results, bundle, error, vars_at_entry,
                   prev_url>>

\* return {"response": ..., "tests_results": ..., "no_failure": ...}
Run_return ==
    /\ pc = "return"
    /\ bundle' = [response |-> response, tests_results |-> tests_results,
                  no_failure |-> no_failure(tests_results)]
    /\ pc' = "returned"
    /\ calls' = Append(calls, Did("return", ""))
    /\ UNCHANGED <<spec, constructed, vars, heap, runs, method, url, sent,
                   response, tests_results, error, vars_at_entry,
                   prev_url>>

Next ==
    \/ \E s \in Fragments : Construct(s)
    \/ Get_http_method
    \/ Run_http_method
    \/ Run_full_url_path
    \/ Run_pre_update
    \/ Run_request
    \/ Run_post_update
    \/ Run_tests
    \/ Run_hide
    \/ Run_return

Spec == Init /\ [][Next]_state

\* ----------------------------------------------------------------- claims

\* Where in `calls` the calls on collaborator fn stand.
Positions(fn) == {i \in 1..Len(calls) : calls[i].fn = fn}

\* The heap with response `id` as the transport delivered it.
AsDelivered(h, id) == [h EXCEPT ![id] = NewResponse(h[id].status_code)]

\* C1: whenever run() has returned a bundle, every test was run before the
\* response was redacted, each test result is the one the test gives on the
\* response as delivered (a test comparing the Authorization header with
\* the secret has PASSED), and in the bundle's response every sensitive
\* field holds the mask.
C1_TestsBeforeRedaction ==
    pc = "returned" =>
        /\ bundle.response \in DOMAIN heap
        /\ \A f \in SENSITIVE : heap[bundle.response].headers[f] = MASK
        /\ Len(bundle.tests_results) = Len(tests(spec))
        /\ \A i \in 1..Len(tests(spec)) :
             /\ bundle.tests_results[i] =
                  TestRun(tests(spec)[i], vars, AsDelivered(heap, bundle.response))
             /\ tests(spec)[i].assert = "auth_is_secret"
                  => bundle.tests_results[i].status = PASSED
        /\ Cardinality(Positions("test.run")) = Len(tests(spec))
        /\ Cardinality(Positions("hide_sensitive_info")) = 1
        /\ \A i \in Positions("test.run"), j \in Positions("hide_sensitive_info") :
             i < j

\* C1 happens: a bundle is returned whose response has the secret masked
\* while a test that compared the header with the secret passed.
C1_Witness ==
    /\ pc = "returned"
    /\ heap[bundle.response].headers["Authorization"] = MASK
    /\ \E i \in 1..Len(bundle.tests_results) :
         /\ tests(spec)[i].assert = "auth_is_secret"
         /\ bundle.tests_results[i].status = PASSED

\* C2: in every returned bundle no_failure is true exactly when every
\* entry of tests_results is PASSED; a FAILED or ERROR entry makes it
\* false; a request without tests has no results and no_failure true.
C2_NoFailureIffAllPassed ==
    pc = "returned" =>
        LET statuses == {bundle.tests_results[i].status :
                           i \in 1..Len(bundle.tests_results)}
        IN  /\ bundle.no_failure = (statuses \subseteq {PASSED})
            /\ (statuses \cap {FAILED, ERROR} # {}) => ~bundle.no_failure
            /\ tests(spec) = <<>> =>
                 (bundle.tests_results = <<>> /\ bundle.no_failure)

\* C2 happens: a bundle with a PASSED and an ERROR entry and no_failure
\* false.
C2_Witness ==
    /\ pc = "returned"
    /\ \E i, j \in 1..Len(bundle.tests_results) :
         /\ bundle.tests_results[i].status = PASSED
         /\ bundle.tests_results[j].status = ERROR
    /\ ~bundle.no_failure

\* The registry of this run after its pre-call update.
AfterPreUpdate == Update(vars_at_entry, spec_vars(spec), EmptyDict, FALSE, heap)

\* C3 (as claimed): headers, params and body are resolved before the
\* pre-call update, so what is sent to the transport is their value in
\* the registry as it was before this request's vars were merged in.
C3_ArgumentsResolvedBeforePreUpdate ==
    sent # <<>> =>
        /\ Resolves(merged_headers(spec), vars_at_entry)
        /\ sent[1].headers = headers(spec, vars_at_entry, heap)
        /\ Resolves(merged_params(spec), vars_at_entry)
        /\ sent[1].params = params(spec, vars_at_entry, heap)
        /\ TokenResolves(Get(spec, BODY_KEY, None), vars_at_entry)
        /\ sent[1].json = body(spec, vars_at_entry, heap)

\* C3 (amended): method and url are resolved before the pre-call update,
\* against the registry as run() found it; headers, params and body are
\* resolved after it, as the arguments of the transport call, against
\* the registry with this request's vars merged in raw.
C3_ArgumentsResolvedAfterPreUpdate ==
    sent # <<>> =>
        /\ \E u \in Positions("update") :
             /\ calls[u].preevaluate = FALSE
             /\ \A i \in Positions("evaluate") :
                  IF calls[i].arg = "url" THEN i < u ELSE u < i
             /\ \A i \in Positions("http_method") : i < u
             /\ \A r \in Positions("request") :
                  \A i \in Positions("evaluate") : i < r
        /\ sent[1].method = http_method(spec)
        /\ Resolves(full_url(spec), vars_at_entry)
        /\ sent[1].url = full_url_path(spec, vars_at_entry, heap)
        /\ Resolves(merged_headers(spec), AfterPreUpdate)
        /\ sent[1].headers = headers(spec, AfterPreUpdate, heap)
        /\ Resolves(merged_params(spec), AfterPreUpdate)
        /\ sent[1].params = params(spec, AfterPreUpdate, heap)
        /\ TokenResolves(Get(spec, BODY_KEY, None), AfterPreUpdate)
        /\ sent[1].json = body(spec, AfterPreUpdate, heap)

\* C3 happens: a request was sent whose Authorization header is the
\* placeholder of a variable of its own vars, and the header sent is the
\* raw binding of this request, which the registry did not hold on entry.
C3_Witness ==
    /\ sent # <<>>
    /\ "tok" \in DOMAIN spec_vars(spec)
    /\ Get(spec, HEADERS_KEY, EmptyDict) = DefaultHeaders
    /\ sent[1].headers["Authorization"] = spec_vars(spec)["tok"]
    /\ Get(vars_at_entry, "tok", None) # spec_vars(spec)["tok"]

\* C4: a run() that has reached test evaluation has updated the namespace
\* exactly twice, both times with the configured vars: first with
\* preevaluate=false and no extras, before the one transport call; then
\* with preevaluate=true and the captured response as the extra
\* `response`, after the transport call and before every test; and the
\* registry is the result of these two updates.
C4_TwoNamespaceUpdates ==
    pc \in {"tests", "hide", "return", "returned"} =>
        /\ Cardinality(Positions("update")) = 2
        /\ Cardinality(Positions("request")) = 1
        /\ \E i, j \in Positions("update"), r \in Positions("request") :
             /\ i < r
             /\ r < j
             /\ calls[i].preevaluate = FALSE
             /\ calls[i].extras = EmptyDict
             /\ calls[i].bindings = spec_vars(spec)
             /\ calls[j].preevaluate = TRUE
             /\ calls[j].extras = (RESPONSE :> Obj(response))
             /\ calls[j].bindings = spec_vars(spec)
             /\ \A t \in Positions("test.run") : j < t
        /\ response # 0
        /\ RESPONSE \in DOMAIN vars
        /\ vars[RESPONSE] = Obj(response)
        /\ pc \in {"tests", "hide"} =>
             vars = Update(AfterPreUpdate, spec_vars(spec),
                           (RESPONSE :> Obj(response)), TRUE, heap)

\* C4 happens: the tests of a request with a vars binding over the
\* response have been run, and the registry holds the binding evaluated.
C4_Witness ==
    /\ pc = "hide"
    /\ tests_results # <<>>
    /\ spec_vars(spec) = ("tok" :> Rsp("Authorization"))
    /\ vars["tok"] = Lit(SECRET)

\* C5: when the transport call raises, the exception leaves run(): the
\* transport was called once and is the last call made, the only update
\* made is the pre-call one (the registry is what that update left), no
\* test was run, nothing was redacted, and no bundle was returned.
C5_TransportFailurePropagates ==
    (pc = "raised" /\ error.type = "ConnectionError") =>
        /\ Len(sent) = 1
        /\ Cardinality(Positions("request")) = 1
        /\ calls[Len(calls)].fn = "request"
        /\ \A i \in Positions("update") : calls[i].preevaluate = FALSE
        /\ Cardinality(Positions("update")) = 1
        /\ vars = AfterPreUpdate
        /\ Positions("test.run") = {}
        /\ Positions("hide_sensitive_info") = {}
        /\ Positions("return") = {}
        /\ tests_results = <<>>
        /\ bundle = NoBundle
        /\ response = 0

\* C5 happens: the transport raised in a run of a request that declares
\* vars and tests.
C5_Witness ==
    /\ pc = "raised"
    /\ error.type = "ConnectionError"
    /\ tests(spec) # <<>>
    /\ spec_vars(spec) # EmptyDict

\* C6: once the tests of a run have been evaluated there is one result
\* per declared test, in declared order (the i-th result carries the i-th
\* test's name, and the test.run calls were made in that order); a test
\* whose assertion raises has status ERROR; the run goes on to redaction
\* and return, and the bundle holds these results.
C6_OneResultPerTest ==
    /\ pc \in {"hide", "return", "returned"} =>
         /\ Len(tests_results) = Len(tests(spec))
         /\ \A i \in 1..Len(tests(spec)) :
              /\ tests_results[i].name = tests(spec)[i].name
              /\ tests_results[i].status \in {PASSED, FAILED, ERROR}
              /\ AssertRaises(tests(spec)[i], vars)
                   <=> tests_results[i].status = ERROR
         /\ Cardinality(Positions("test.run")) = Len(tests(spec))
         /\ \A i \in Positions("test.run") :
              LET k == Cardinality({j \in Positions("test.run") : j <= i})
              IN  calls[i].arg = tests(spec)[k].name
    /\ pc = "hide" => ENABLED Run_hide
    /\ pc = "return" => ENABLED Run_return
    /\ pc = "returned" => bundle.tests_results = tests_results

\* C6 happens: a bundle is returned whose first test raised and whose
\* second test was evaluated all the same.
C6_Witness ==
    /\ pc = "returned"
    /\ Len(bundle.tests_results) = 2
    /\ bundle.tests_results[1].status = ERROR
    /\ bundle.tests_results[2].status = PASSED

\* C7: once http_method has been read on a node with a configured method
\* m: if m in upper case is one of GET, POST, PUT, PATCH, DELETE the value
\* read is m in upper case and no HTTPMethodNotAllowedError was raised;
\* otherwise HTTPMethodNotAllowedError was raised with m in upper case
\* and the allowed set.  "get" gives GET, "OPTIONS" is rejected, and a
\* value read is always in the allowed set.
C7_HttpMethodUpperOrRejected ==
    (calls # <<>> /\ METHOD_KEY \in DOMAIN spec) =>
        LET m == spec[METHOD_KEY]
            allowed == { <<"G", "E", "T">>, <<"P", "O", "S", "T">>,
                         <<"P", "U", "T">>, <<"P", "A", "T", "C", "H">>,
                         <<"D", "E", "L", "E", "T", "E">> }
        IN  /\ IF Upper(m) \in allowed
               THEN /\ method = Upper(m)
                    /\ error.type # "HTTPMethodNotAllowedError"
               ELSE /\ pc = "raised"
                    /\ error = [type |-> "HTTPMethodNotAllowedError",
                                detail |-> <<Upper(m), allowed>>]
                    /\ method = <<>>
            /\ m = <<"g", "e", "t">> => method = <<"G", "E", "T">>
            /\ m = <<"O", "P", "T", "I", "O", "N", "S">> => pc = "raised"
            /\ method # <<>> => method \in allowed

\* C7 happens: http_method was read on a node configured with "Post".
C7_Witness ==
    /\ calls # <<>>
    /\ METHOD_KEY \in DOMAIN spec
    /\ spec[METHOD_KEY] = <<"P", "o", "s", "t">>
    /\ method = <<"P", "O", "S", "T">>

\* C8: a request node is constructed exactly when the key set of its
\* fragment is within {body, headers, method, name, params, path, tests,
\* vars} and holds name; a rejected construction failed with the key
\* validation error of scope "request".
C8_KeysValidated ==
    LET valid == /\ DOMAIN spec \subseteq {"body", "headers", "method", "name",
                                          "params", "path", "tests", "vars"}
                 /\ "name" \in DOMAIN spec
    IN  /\ constructed <=> valid
        /\ (~constructed /\ error # NoError) =>
             /\ error.type = "KeyValidationError"
             /\ error.detail[2] = "request"
             /\ error.detail[1] # {}

\* C8 happens: the construction of a fragment with the unknown key foo
\* (and name) was rejected.
C8_Witness ==
    /\ ~constructed
    /\ error.type = "KeyValidationError"
    /\ {NAME_KEY, UNKNOWN_KEY} \subseteq DOMAIN spec

Non2xx(status) == status \notin 200..299

\* C9: a response of any status flows on: while run() is past the
\* transport call its next step is enabled whatever the status; a bundle
\* returned for a non-2xx response went through the post-call update, all
\* tests and redaction; and run() raises only for a disallowed method, a
\* template that does not resolve, or a transport failure - after the
\* transport call only because a vars binding does not resolve.
C9_StatusCodesAreData ==
    /\ pc \in {"post_update", "tests", "hide", "return", "returned"} =>
         /\ response \in DOMAIN heap
         /\ heap[response].status_code \in StatusCodes
    /\ pc = "post_update" => ENABLED Run_post_update
    /\ pc = "tests" => ENABLED Run_tests
    /\ pc = "hide" => ENABLED Run_hide
    /\ pc = "return" => ENABLED Run_return
    /\ (pc = "returned" /\ Non2xx(heap[response].status_code)) =>
         /\ Cardinality({i \in Positions("update") : calls[i].preevaluate}) = 1
         /\ vars[RESPONSE] = Obj(response)
         /\ Len(bundle.tests_results) = Len(tests(spec))
         /\ Cardinality(Positions("hide_sensitive_info")) = 1
         /\ \A f \in SENSITIVE : heap[response].headers[f] = MASK
         /\ bundle.response = response
    /\ pc = "raised" =>
         /\ error.type \in {"HTTPMethodNotAllowedError",
                            "TemplateResolutionError", "ConnectionError"}
         /\ Positions("request") # {} =>
              \/ /\ error.type = "ConnectionError"
                 /\ calls[Len(calls)].fn = "request"
              \/ /\ error.type = "TemplateResolutionError"
                 /\ calls[Len(calls)].fn = "update"
                 /\ UpdateRaises(vars, calls[Len(calls)].bindings,
                                 calls[Len(calls)].extras, TRUE)

\* C9 happens: a bundle is returned for a 404 response, with its tests
\* evaluated.
C9_Witness ==
    /\ pc = "returned"
    /\ heap[bundle.response].status_code = 404
    /\ bundle.tests_results # <<>>
    /\ heap[bundle.response].headers["Authorization"] = MASK

\* C10: construction does not look at the method: a node whose key set is
\* valid is constructed whatever its method, and stays unflagged until it
\* is used; HTTPMethodNotAllowedError is only ever raised by a read of
\* http_method, the last call made when it is raised, on a node whose
\* method is disallowed.
C10_MethodCheckedOnAccess ==
    /\ (DOMAIN spec \subseteq ALLOWED_KEYS /\ NAME_KEY \in DOMAIN spec)
         => constructed
    /\ (constructed /\ calls = <<>>) => (error = NoError /\ pc = "idle")
    /\ error.type = "HTTPMethodNotAllowedError" =>
         /\ calls # <<>>
         /\ calls[Len(calls)].fn = "http_method"
         /\ METHOD_KEY \in DOMAIN spec
         /\ Upper(spec[METHOD_KEY]) \notin ALLOWED_HTTP_METHODS

\* C10 happens: a node configured with the method OPTIONS has been
\* constructed and not used, and nothing was raised.
C10_Witness ==
    /\ constructed
    /\ calls = <<>>
    /\ error = NoError
    /\ METHOD_KEY \in DOMAIN spec
    /\ spec[METHOD_KEY] = <<"O", "P", "T", "I", "O", "N", "S">>

\* The template a request evaluates under key k of a mapping it merges
\* over the endpoint's: its own if it has one, else the endpoint's.
Effective(own, inherited, k) ==
    IF k \in DOMAIN own THEN own[k] ELSE inherited[k]

\* C11: the headers, and likewise the params, a request sends have as
\* keys the endpoint's keys together with its own; under a key of its
\* own the request sends its own value evaluated, also when the endpoint
\* has the key too; under a key only the endpoint has it sends the
\* endpoint's value.
C11_OwnKeysOverrideEndpoint ==
    sent # <<>> =>
        LET own_h == Get(spec, HEADERS_KEY, EmptyDict)
            own_p == Get(spec, PARAMS_KEY, EmptyDict)
        IN  /\ DOMAIN sent[1].headers = DOMAIN endpoint_headers \cup DOMAIN own_h
            /\ \A k \in DOMAIN sent[1].headers :
                 LET t == Effective(own_h, endpoint_headers, k)
                 IN  /\ TokenResolves(t, AfterPreUpdate)
                     /\ sent[1].headers[k] = EvalToken(t, AfterPreUpdate, heap)
            /\ "Accept" \notin DOMAIN own_h
                 => sent[1].headers["Accept"] = Lit("json")
            /\ DOMAIN sent[1].params = DOMAIN endpoint_params \cup DOMAIN own_p
            /\ \A k \in DOMAIN sent[1].params :
                 LET t == Effective(own_p, endpoint_params, k)
                 IN  /\ TokenResolves(t, AfterPreUpdate)
                     /\ sent[1].params[k] = EvalToken(t, AfterPreUpdate, heap)
            /\ "limit" \notin DOMAIN own_p
                 => sent[1].params["limit"] = Lit("10")

\* C11 happens: a request with headers and params of its own was sent;
\* under Authorization and page, which the endpoint has too, it sent its
\* own values, under X-Id and q its own, under Accept and limit the
\* endpoint's.
C11_Witness ==
    /\ sent # <<>>
    /\ Get(spec, HEADERS_KEY, EmptyDict) = DefaultHeaders
    /\ Get(spec, PARAMS_KEY, EmptyDict) = DefaultParams
    /\ sent[1].headers["Authorization"] = Lit("t1")
    /\ sent[1].headers["X-Id"] = Lit("7")
    /\ sent[1].headers["Accept"] = Lit("json")
    /\ sent[1].params["page"] = Lit("2")
    /\ sent[1].params["q"] = Lit("t1")
    /\ sent[1].params["limit"] = Lit("10")

\* C12: nothing of the descriptor is kept from one run to the next. When
\* the transport has just been called, the method it was given is the
\* one the fragment configures, the URL is the template evaluated against
\* the registry as this run found it, and headers, params and body are
\* the templates evaluated against the registry as it is now; what an
\* earlier run of the node computed plays no part.
C12_DescriptorRecomputedEachRun ==
    pc = "post_update" =>
        /\ Len(sent) = 1
        /\ sent[1].method = http_method(spec)
        /\ ~full_url_path_raises(spec, vars_at_entry)
        /\ sent[1].url = full_url_path(spec, vars_at_entry, heap)
        /\ ~headers_raises(spec, vars)
        /\ ~params_raises(spec, vars)
        /\ ~body_raises(spec, vars)
        /\ sent[1].headers = headers(spec, vars, heap)
        /\ sent[1].params = params(spec, vars, heap)
        /\ sent[1].json = body(spec, vars, heap)

\* C12 happens: the same node ran twice, its first run rebound tok in
\* the registry, and the second run sent the URL resolved from the new
\* binding, not the one the first run had computed.
C12_Witness ==
    /\ pc = "post_update"
    /\ runs = 2
    /\ prev_url # <<>>
    /\ sent # <<>>
    /\ sent[1].url # prev_url
    /\ prev_url[Len(prev_url)] = Lit("a")
    /\ sent[1].url[Len(sent[1].url)] = Lit("t1")
    /\ sent[1].headers["Authorization"] = Lit("t1")

\* C13: a run calls the transport at most once, with redirect following
\* switched off, and never a second time whatever the first call did;
\* when run() has returned a bundle the transport was called exactly
\* once, and every test ran after that call.
C13_OneTransportCall ==
    /\ Len(sent) <= 1
    /\ Cardinality(Positions("request")) = Len(sent)
    /\ \A i \in 1..Len(sent) : sent[i].allow_redirects = FALSE
    /\ pc = "returned" =>
         /\ Len(sent) = 1
         /\ Cardinality(Positions("request")) = 1
         /\ \A r \in Positions("request") :
              \A t \in Positions("test.run") : r < t

\* C13 happens: run() returned a bundle for a request with tests that the
\* server answered with a redirect.
C13_Witness ==
    /\ pc = "returned"
    /\ heap[bundle.response].status_code = 302
    /\ Len(sent) = 1
    /\ Cardinality(Positions("test.run")) = MaxTests

\* run() has failed before its first registry update: on the method, or
\* on the resolution of the URL template.
FailedBeforePreUpdate ==
    /\ pc = "raised"
    /\ calls # <<>>
    /\ calls[1].fn = "run"
    /\ \/ error.type = "HTTPMethodNotAllowedError"
       \/ /\ error.type = "TemplateResolutionError"
          /\ calls[Len(calls)] = Did("evaluate", "url")

\* C14: a run that fails on a method outside the allowed set, or on the
\* resolution of the URL template, leaves the registry exactly as the run
\* found it, the request's own vars not merged in, and has made no
\* transport call.
C14_EarlyFailureLeavesRegistry ==
    FailedBeforePreUpdate =>
        /\ vars = vars_at_entry
        /\ sent = <<>>
        /\ Positions("update") = {}
        /\ Positions("request") = {}
        /\ bundle = NoBundle

\* C14 happens: the URL of a request uses ${tok}, which the request binds in
\* its own vars and the registry does not hold; the run failed on the URL
\* and tok is still unbound.
C14_Witness ==
    /\ FailedBeforePreUpdate
    /\ error.type = "TemplateResolutionError"
    /\ spec_vars(spec) = ("tok" :> Lit("t1"))
    /\ Get(spec, PATH_KEY, <<>>) = DefaultPath
    /\ "tok" \notin DOMAIN vars

\* C15: when the transport call has failed, the pre-call update stands:
\* the registry holds every var of the request as written, unevaluated,
\* every other name as the run found it, and no response binding made
\* by this run.
C15_PreUpdateNotRolledBack ==
    (pc = "raised" /\ error.type = "ConnectionError") =>
        /\ DOMAIN vars = DOMAIN vars_at_entry \cup DOMAIN spec_vars(spec)
        /\ \A k \in DOMAIN spec_vars(spec) : vars[k] = spec_vars(spec)[k]
        /\ \A k \in DOMAIN vars \ DOMAIN spec_vars(spec) :
             vars[k] = vars_at_entry[k]
        /\ RESPONSE \in DOMAIN vars =>
             /\ RESPONSE \in DOMAIN vars_at_entry
             /\ vars[RESPONSE] = vars_at_entry[RESPONSE]
             /\ vars[RESPONSE].obj # runs

\* C15 happens: the transport failed in a run of a request whose var is a
\* placeholder on the response; the registry now binds tok to that
\* placeholder, which the run did not find there, and the response it
\* binds is the one of an earlier run.
C15_Witness ==
    /\ pc = "raised"
    /\ error.type = "ConnectionError"
    /\ spec_vars(spec) = ("tok" :> Rsp("Authorization"))
    /\ vars["tok"] = Rsp("Authorization")
    /\ Get(vars_at_entry, "tok", None) # Rsp("Authorization")
    /\ RESPONSE \in DOMAIN vars
    /\ vars[RESPONSE].obj < runs

\* C16: when run() has returned, the response of the bundle is the very
\* object the registry binds under `response`; it was redacted in place,
\* so its sensitive headers are masked, and a placeholder on such a
\* header resolved against the registry now gives the mask.
C16_BundleAndRegistryShareResponse ==
    pc = "returned" =>
        /\ RESPONSE \in DOMAIN vars
        /\ vars[RESPONSE] = Obj(bundle.response)
        /\ bundle.response \in DOMAIN heap
        /\ \A f \in SENSITIVE : heap[bundle.response].headers[f] = MASK
        /\ \A f \in SENSITIVE : EvalToken(Rsp(f), vars, heap) = Lit(MASK)

\* C16 happens: run() returned; a test of the request saw the secret in
\* the response, a var of the request was bound to it by the post-call
\* update, and the response the registry binds now shows the mask.
C16_Witness ==
    /\ pc = "returned"
    /\ vars[RESPONSE].obj = bundle.response
    /\ spec_vars(spec) = ("tok" :> Rsp("Authorization"))
    /\ vars["tok"] = Lit(SECRET)
    /\ EvalToken(Rsp("Authorization"), vars, heap) = Lit(MASK)

\* C17: a request node has no registry of its own: the one registry
\* is the endpoint's. It changes only in the two updates of a run; the
\* construction of another node, a read of a property, a return and a
\* failure leave it as it is, so the vars and the response of an earlier
\* request stay bound. A later run resolves its URL against the registry
\* as earlier requests left it, and sends its request against that
\* registry with its own vars merged in; the response bound by an earlier
\* request stays bound until the run's post-call update.
C17_RegistryBelongsToEndpoint ==
    /\ [](pc \in {"url", "pre_update"} => vars = vars_at_entry)
    /\ [](pc \in {"request", "post_update"} => vars = AfterPreUpdate)
    /\ [][vars' # vars => pc \in {"pre_update", "post_update"}]_state

\* C17 happens: an earlier request bound tok to the secret of its response;
\* a later request that declares no vars has sent ${tok} resolved to that
\* secret, and its post-call update has not happened yet: the registry
\* still binds the response of the earlier run.
C17_Witness ==
    /\ pc = "post_update"
    /\ runs = 2
    /\ VARS_KEY \notin DOMAIN spec
    /\ sent # <<>>
    /\ sent[1].headers["Authorization"] = Lit(SECRET)
    /\ vars["tok"] = Lit(SECRET)
    /\ vars[RESPONSE] = Obj(1)
    /\ response = 2

\* C18: on a node whose fragment has no method key, a read of
\* http_method gives GET and never raises HTTPMethodNotAllowedError, and
\* every request run() sends for it is a GET.
C18_AbsentMethodIsGet ==
    (constructed /\ METHOD_KEY \notin DOMAIN spec) =>
        /\ ~http_method_raises(spec)
        /\ http_method(spec) = <<"G", "E", "T">>
        /\ calls # <<>> =>
             /\ method = <<"G", "E", "T">>
             /\ error.type # "HTTPMethodNotAllowedError"
        /\ \A i \in 1..Len(sent) : sent[i].method = <<"G", "E", "T">>

\* C18 happens: run() has sent the request of a node that has a path and no
\* method key, as a GET.
C18_Witness ==
    /\ constructed
    /\ DOMAIN spec = {NAME_KEY, PATH_KEY}
    /\ sent # <<>>
    /\ sent[1].method = <<"G", "E", "T">>
    /\ method = <<"G", "E", "T">>

====
